---- MODULE Spec2Model ----
(***************************************************************************)
(* A model of podcats (src/podcats/__init__.py): the Episode and S3Episode *)
(* property resolution (date, title, url, companion metadata) and the      *)
(* Channel iteration, ordering and rendering.                              *)
(*                                                                         *)
(* Text is modelled as a sequence of one-character strings.  A value a     *)
(* Python expression yields is an outcome record [status, value] whose     *)
(* status is "ok" or the name of the exception the expression raises.      *)
(***************************************************************************)
EXTENDS Integers, Sequences, FiniteSets

VARIABLES
    channel,    \* the Channel object: root_dir and root_url
    source,     \* the storage: local files or bucket objects, in listing order
    ep,         \* the Episode object under test (episode-level specifications)
    res,        \* outcome of the last property access or of the render
    listed,     \* number of bucket listings issued so far
    pc,         \* position of Channel.as_xml / as_html
    pos,        \* index in the storage listing of the next asset to visit
    episodes,   \* episodes yielded so far by Channel.__iter__
    order,      \* the result of sorted(self)
    items       \* the items rendered so far, in output order

vars == <<channel, source, ep, res, listed, pc, pos, episodes, order, items>>

(***************************************************************************)
(* Bounds                                                                  *)
(***************************************************************************)
MaxDirLen == 3      \* longest relative_dir drawn
MaxPathLen == 3     \* longest file path drawn
MaxFrames == 2      \* most ID3 frames of one kind in a file
MaxFields == 6      \* most tokens in a date text
MaxObjects == 4     \* most objects in the bucket
MaxListings == 3    \* bucket listings after which no further access is made
MaxFiles == 3       \* most files under the local root directory

(***************************************************************************)
(* Text helpers                                                            *)
(***************************************************************************)
\* Python's None and a present value
PyNone == [some |-> FALSE]

Some(v) == [some |-> TRUE, v |-> v]

Range(s) == {s[i] : i \in 1..Len(s)}

Ok(v) == [status |-> "ok", value |-> v]

Raise(e) == [status |-> e, value |-> <<>>]

\* the sequences over S of length at most n
SeqsUpTo(S, n) == UNION {[1..k -> S] : k \in 0..n}

Contains(s, sub) ==
    \E i \in 1..(Len(s) - Len(sub) + 1) : SubSeq(s, i, i + Len(sub) - 1) = sub

StartsWith(s, pre) ==
    Len(s) >= Len(pre) /\ SubSeq(s, 1, Len(pre)) = pre

EndsWith(s, suf) ==
    Len(s) >= Len(suf) /\ SubSeq(s, Len(s) - Len(suf) + 1, Len(s)) = suf

LastIndexOf(s, c) ==
    IF \E i \in 1..Len(s) : s[i] = c
    THEN CHOOSE i \in 1..Len(s) : s[i] = c /\ \A j \in (i + 1)..Len(s) : s[j] # c
    ELSE 0

\* os.path.basename: what follows the last slash
Basename(p) == SubSeq(p, LastIndexOf(p, "/") + 1, Len(p))

\* os.path.splitext: the extension starts at the last dot of the base name,
\* unless only dots precede it
SplitExt(p) ==
    LET sep == LastIndexOf(p, "/")
        dot == LastIndexOf(p, ".")
    IN  IF dot > sep /\ \E k \in (sep + 1)..(dot - 1) : p[k] # "."
        THEN <<SubSeq(p, 1, dot - 1), SubSeq(p, dot, Len(p))>>
        ELSE <<p, <<>>>>

\* re.sub(r'//', '/', path): one left-to-right pass over non-overlapping matches
RECURSIVE ReSub(_)
ReSub(s) ==
    IF Len(s) < 2 THEN s
    ELSE IF s[1] = "/" /\ s[2] = "/"
         THEN <<"/">> \o ReSub(SubSeq(s, 3, Len(s)))
         ELSE <<s[1]>> \o ReSub(Tail(s))

\* urllib pathname2url (posix): percent-quote every character that is not safe
RECURSIVE pathname2url(_)
pathname2url(s) ==
    IF s = <<>> THEN <<>>
    ELSE (IF s[1] = " " THEN <<"%", "2", "0">> ELSE <<s[1]>>) \o pathname2url(Tail(s))

STATIC_PATH == <<"/", "s", "t", "a", "t", "i", "c">>

RootUrl == <<"h", "t", "t", "p", ":", "/", "/", "h", ":", "5">>

(***************************************************************************)
(* Episode._to_url                                                         *)
(***************************************************************************)
UrlPath(e, filepath) ==
    ReSub(STATIC_PATH \o <<"/">> \o e.relative_dir \o <<"/">> \o Basename(filepath))

to_url(e, filepath) == e.root_url \o pathname2url(UrlPath(e, filepath))

(***************************************************************************)
(* The storage.  A local file is [path, size, mtime, reader, tags, id3]:    *)
(* id3]: reader is what mutagen.File does with the file ("tags": an object *)
(* whose mapping is tags, "none": it returns None, "raise": it raises) and *)
(* id3 is what ID3(filename) finds (PyNone when it raises).  A bucket      *)
(* object is [key, size, body]: key is its sequence of path segments and   *)
(* body the JSON mapping it holds (PyNone for an audio object).            *)
(***************************************************************************)
RootDir == <<"/", "r">>

S3Root ==
    <<"h", ":", "/", "/", "b", ".", "s", "3", ".", "r", ".",
      "a", "m", "a", "z", "o", "n", "a", "w", "s", ".", "c", "o", "m">>

FileAt(filename) == CHOOSE f \in Range(source) : f.path = filename

\* mimetypes.guess_type(...)[0]: decided by the extension
GuessType(p) ==
    LET ext == SplitExt(p)[2]
    IN  IF ext = <<".", "m", "p", "3">>
        THEN Some(<<"a", "u", "d", "i", "o", "/", "m", "p", "e", "g">>)
        ELSE IF ext = <<".", "p", "n", "g">>
        THEN Some(<<"i", "m", "a", "g", "e", "/", "p", "n", "g">>)
        ELSE PyNone

(***************************************************************************)
(* Episode.__init__, get_length, get_tags                                  *)
(***************************************************************************)
TagsNone == [t |-> "None"]

TagsMap(m) == [t |-> "map", m |-> m]

get_tags(f) ==
    IF f.reader = "raise" THEN Raise("MutagenError")
    ELSE IF f.reader = "none" THEN Ok(TagsNone)
    ELSE Ok(TagsMap(f.tags))

Episode(filename, relative_dir, root_url) ==
    LET f == FileAt(filename)
        tags == get_tags(f)
    IN  IF tags.status # "ok" THEN tags
        ELSE Ok([kind |-> "local", filename |-> filename,
                 relative_dir |-> relative_dir, root_url |-> root_url,
                 length |-> f.size, tags |-> tags.value, id3 |-> f.id3,
                 data |-> PyNone])

(***************************************************************************)
(* S3Episode.__init__, get_length, get_tags                                *)
(***************************************************************************)
\* the number a key segment spells, -1 when it is not a number
SegNum(seg) ==
    CASE seg = "1970" -> 1970
      [] seg = "1971" -> 1971
      [] seg \in {"01", "1"} -> 1
      [] seg = "02" -> 2
      [] OTHER -> -1

\* '-'.join(path[:3]) as a date text: one token per joined segment
S3get_tags(obj) ==
    LET n == IF Len(obj.key) < 3 THEN Len(obj.key) ELSE 3
    IN  TagsMap([k \in {"date"} |-> <<[i \in 1..n |-> SegNum(obj.key[i])]>>])

S3Episode(obj, relative_dir, root_url) ==
    Ok([kind |-> "s3", filename |-> obj, relative_dir |-> relative_dir,
        root_url |-> root_url, length |-> obj.size, tags |-> S3get_tags(obj),
        id3 |-> PyNone, data |-> PyNone])

(***************************************************************************)
(* Episode.get_tag                                                         *)
(***************************************************************************)
get_tag(e, name) ==
    IF e.tags.t = "None" THEN Raise("TypeError")
    ELSE IF name \notin DOMAIN e.tags.m THEN Ok(PyNone)      \* KeyError
    ELSE IF e.tags.m[name] = <<>> THEN Ok(PyNone)            \* IndexError
    ELSE Ok(Some(e.tags.m[name][1]))

(***************************************************************************)
(* Episode.date.  A date text is its sequence of number tokens, the token  *)
(* -1 standing for text that is not a number; the separators are those of  *)
(* the formats ("-" before month and day, ":" before hour, minute, second).*)
(***************************************************************************)
\* the formats of lines 156-161, each by the number of fields it reads
formats == <<6, 5, 4, 3, 2, 1>>

FieldOk(i, v) ==
    CASE i = 1 -> v >= 1000 /\ v <= 9999
      [] i = 2 -> v >= 1 /\ v <= 12
      [] i = 3 -> v >= 1 /\ v <= 31
      [] i = 4 -> v >= 0 /\ v <= 23
      [] i = 5 -> v >= 0 /\ v <= 59
      [] OTHER -> v >= 0 /\ v <= 61

\* time.strptime(dt, fmt): the whole text must match the format
strptime(dt, fmt) ==
    IF Len(dt) = fmt /\ \A i \in 1..fmt : FieldOk(i, dt[i])
    THEN Ok([i \in 1..6 |-> IF i <= fmt THEN dt[i] ELSE IF i <= 3 THEN 1 ELSE 0])
    ELSE Raise("ValueError")

\* time.mktime in UTC, on a calendar of 31-day months
mktime(t) ==
    ((((t[1] - 1970) * 12 + (t[2] - 1)) * 31 + (t[3] - 1)) * 24 + t[4]) * 3600
        + t[5] * 60 + t[6]

\* the for/else loop of lines 163-170: PyNone when no format parses
RECURSIVE ParseLoop(_, _)
ParseLoop(dt, k) ==
    IF k > Len(formats) THEN PyNone
    ELSE LET t == strptime(dt, formats[k])
         IN  IF t.status = "ok" THEN Some(mktime(t.value))
             ELSE ParseLoop(dt, k + 1)

\* os.path.getmtime(self.filename)
getmtime(e) ==
    IF e.kind = "local" THEN Ok(FileAt(e.filename).mtime)
    ELSE Raise("TypeError")

Falsy(dt) == ~dt.some \/ dt.v = 0

date(e) ==
    LET tag == get_tag(e, "date")
    IN  IF tag.status # "ok" THEN tag
        ELSE LET dt == IF tag.value.some /\ tag.value.v # <<>>
                       THEN ParseLoop(tag.value.v, 1)
                       ELSE PyNone
             IN  IF Falsy(dt) THEN getmtime(e) ELSE Ok(dt.v)

(***************************************************************************)
(* Episode.title, description, speaker, url                                *)
(***************************************************************************)
\* a title that keeps the extension of the file name
LocalTitleKeepsExt(e) ==
    LET text == Basename(e.filename)
        tit2 == IF e.id3.some /\ Len(e.id3.v.TIT2) > 0 THEN e.id3.v.TIT2[1] ELSE <<>>
        comm == IF e.id3.some /\ Len(e.id3.v.COMM) > 0
                THEN <<" ">> \o e.id3.v.COMM[1] ELSE <<>>
    IN  Ok(Some(text \o tit2 \o comm))

LocalTitle(e) ==
    LET text == SplitExt(Basename(e.filename))[1]
        tit2 == IF e.id3.some /\ Len(e.id3.v.TIT2) > 0 THEN e.id3.v.TIT2[1] ELSE <<>>
        comm == IF e.id3.some /\ Len(e.id3.v.COMM) > 0
                THEN <<" ">> \o e.id3.v.COMM[1] ELSE <<>>
    IN  Ok(Some(text \o tit2 \o comm))

\* the bucket objects whose key starts with the prefix, in listing order
RECURSIVE Filter(_, _)
Filter(objs, prefix) ==
    IF objs = <<>> THEN <<>>
    ELSE (IF Len(objs[1].key) >= Len(prefix)
             /\ SubSeq(objs[1].key, 1, Len(prefix)) = prefix
          THEN <<objs[1]>> ELSE <<>>) \o Filter(Tail(objs), prefix)

EndsWithExt(key, ext) ==
    key # <<>> /\ key[Len(key)] \in
        (IF ext = "json" THEN {"m.json", "n.json"} ELSE {"a.mp3", "b.mp3"})

\* the loop of lines 237-242 over the listing: every match overwrites _data
RECURSIVE ScanMetadata(_, _, _)
ScanMetadata(objs, fname, data) ==
    IF objs = <<>> THEN data
    ELSE LET obj == objs[1]
             hit == EndsWithExt(obj.key, "json")
                    /\ \E k \in DOMAIN obj.body.v : obj.body.v[k] = fname
         IN  ScanMetadata(Tail(objs), fname, IF hit THEN obj.body ELSE data)

\* S3Episode.s3_metadata: the value of self._data after the access
s3_metadata(e) ==
    IF ~e.data.some
    THEN LET path_parts == e.filename.key
             n == IF Len(path_parts) < 3 THEN Len(path_parts) ELSE 3
             prefix == SubSeq(path_parts, 1, n)
         IN  ScanMetadata(Filter(source, prefix), path_parts[Len(path_parts)], e.data)
    ELSE e.data

\* self.s3_metadata[field]
S3Field(e, field) ==
    LET data == s3_metadata(e)
    IN  IF ~data.some THEN Raise("TypeError")
        ELSE IF field \notin DOMAIN data.v THEN Raise("KeyError")
        ELSE Ok(Some(data.v[field]))

title(e) ==
    IF e.kind = "local" THEN LocalTitle(e) ELSE S3Field(e, "Recording Title")

description(e) ==
    IF e.kind = "local" THEN Ok(PyNone) ELSE S3Field(e, "Description")

speaker(e) ==
    IF e.kind = "local" THEN Ok(PyNone) ELSE S3Field(e, "Speaker")

url(e) ==
    IF e.kind = "local" THEN Ok(Some(to_url(e, e.filename)))
    ELSE Ok(Some(<<"s3", e.filename.key>>))

(***************************************************************************)
(* Inputs                                                                  *)
(***************************************************************************)
NoChannel == [root_dir |-> <<>>, root_url |-> RootUrl]

NoEpisode == [kind |-> "none"]

Idle == [op |-> "none", status |-> "ok", value |-> <<>>]

NoTags == [k \in {} |-> <<>>]

File(path, mtime, reader, tags, id3) ==
    [path |-> path, size |-> 1, mtime |-> mtime, reader |-> reader,
     tags |-> tags, id3 |-> id3]

\* paths of files: no file name is empty
Paths(alphabet, n) ==
    {p \in SeqsUpTo(alphabet, n) : p # <<>> /\ p[Len(p)] # "/"}

Frames(texts) == SeqsUpTo(texts, MaxFrames)

ID3s ==
    {PyNone} \cup {Some([TIT2 |-> t, COMM |-> c]) :
                      t \in Frames({<<>>, <<"T">>}), c \in Frames({<<>>, <<"c">>})}

DateTexts == SeqsUpTo({-1, 0, 1, 1970}, MaxFields)

DateTags ==
    {NoTags, [k \in {"date"} |-> <<>>]} \cup {[k \in {"date"} |-> <<d>>] : d \in DateTexts}

Outcome(op, r) == [op |-> op, status |-> r.status, value |-> r.value]

(***************************************************************************)
(* SpecUrl: Episode.url on an episode built from any path and relative_dir *)
(***************************************************************************)
InitUrl ==
    /\ channel = NoChannel
    /\ \E p \in Paths({"/", "e", ".", " "}, MaxPathLen), d \in SeqsUpTo({"/", "s"}, MaxDirLen) :
          /\ source = <<File(p, 1, "tags", NoTags, PyNone)>>
          /\ ep = Episode(p, d, RootUrl).value
    /\ res = Idle
    /\ listed = 0
    /\ pc = "episode"
    /\ pos = 1
    /\ episodes = <<>>
    /\ order = <<>>
    /\ items = <<>>

GetUrl ==
    /\ pc = "episode"
    /\ ep.kind = "local"
    /\ res' = Outcome("url", url(ep))
    /\ UNCHANGED <<channel, source, ep, listed, pc, pos, episodes, order, items>>

NextUrl == GetUrl

SpecUrl == InitUrl /\ [][NextUrl]_vars

(***************************************************************************)
(* SpecTitle: Episode.title on a local episode with any ID3 frames         *)
(***************************************************************************)
InitTitle ==
    /\ channel = NoChannel
    /\ \E p \in Paths({"/", "e", "."}, MaxPathLen), i \in ID3s, r \in {"tags", "none"} :
          /\ source = <<File(p, 1, r, NoTags, i)>>
          /\ ep = Episode(p, <<>>, RootUrl).value
    /\ res = Idle
    /\ listed = 0
    /\ pc = "episode"
    /\ pos = 1
    /\ episodes = <<>>
    /\ order = <<>>
    /\ items = <<>>

GetTitle ==
    /\ pc = "episode"
    /\ ep.kind = "local"
    /\ res' = Outcome("title", title(ep))
    /\ UNCHANGED <<channel, source, ep, listed, pc, pos, episodes, order, items>>

NextTitle == GetTitle

SpecTitle == InitTitle /\ [][NextTitle]_vars

(***************************************************************************)
(* SpecDate: Episode.date on a local episode with any tags, and on an      *)
(* object-store episode with any key                                       *)
(***************************************************************************)
S3Object(key, body) == [key |-> key, size |-> 1, body |-> body]

\* the keys of the bucket, in the order a listing returns them
AllKeys ==
    << <<"1970", "01", "b.mp3">>,
       <<"1971", "01", "02", "a.mp3">>,
       <<"1971", "01", "02", "m.json">>,
       <<"1971", "01", "02", "n.json">>,
       <<"1971", "1", "01", "b.mp3">>,
       <<"1971", "1", "01", "m.json">>,
       <<"a.mp3">>,
       <<"m.json">> >>

IsAudioKey(key) == EndsWithExt(key, "mp3")

InitDate ==
    /\ channel = NoChannel
    /\ \/ \E m \in {0, 1000}, r \in {"tags", "none"}, t \in DateTags :
             /\ r = "none" => t = NoTags
             /\ source = <<File(<<"/", "e">>, m, r, t, PyNone)>>
             /\ ep = Episode(<<"/", "e">>, <<>>, RootUrl).value
       \/ \E k \in {key \in Range(AllKeys) : IsAudioKey(key)} :
             /\ source = <<S3Object(k, PyNone)>>
             /\ ep = S3Episode(source[1], <<>>, RootUrl).value
    /\ res = Idle
    /\ listed = 0
    /\ pc = "episode"
    /\ pos = 1
    /\ episodes = <<>>
    /\ order = <<>>
    /\ items = <<>>

GetDate ==
    /\ pc = "episode"
    /\ res' = Outcome("date", date(ep))
    /\ UNCHANGED <<channel, source, ep, listed, pc, pos, episodes, order, items>>

NextDate == GetDate

SpecDate == InitDate /\ [][NextDate]_vars

(***************************************************************************)
(* SpecS3: title, description and speaker of an object-store episode, in   *)
(* any order and number, against any bucket content                        *)
(***************************************************************************)
Bodies ==
    {Some([k \in {"Recording Title", "Description", "Speaker", "Filename"} |->
              CASE k = "Recording Title" -> t
                [] k = "Description" -> "D"
                [] k = "Speaker" -> "S"
                [] OTHER -> f]) :
        t \in {"T1", "T2"}, f \in {"a.mp3", "b.mp3"}}

\* the objects of a bucket holding the keys numbered by S, in listing order
RECURSIVE Listing(_, _, _)
Listing(S, body, i) ==
    IF i > Len(AllKeys) THEN <<>>
    ELSE (IF i \in S THEN <<S3Object(AllKeys[i], body[i])>> ELSE <<>>)
         \o Listing(S, body, i + 1)

\* every bucket of at most MaxObjects objects: an audio key holds no JSON body,
\* a JSON key holds one
Buckets ==
    LET idx == 1..Len(AllKeys)
        pick == {S \in SUBSET idx : Cardinality(S) <= MaxObjects}
    IN  UNION {{Listing(S, b, 1) :
                   b \in {c \in [S -> Bodies \cup {PyNone}] :
                             \A i \in S : IsAudioKey(AllKeys[i]) <=> ~c[i].some}} :
               S \in pick}

InitS3 ==
    /\ channel = NoChannel
    /\ source \in Buckets
    /\ \E i \in 1..Len(source) :
          /\ IsAudioKey(source[i].key)
          /\ ep = S3Episode(source[i], <<>>, RootUrl).value
    /\ res = Idle
    /\ listed = 0
    /\ pc = "episode"
    /\ pos = 1
    /\ episodes = <<>>
    /\ order = <<>>
    /\ items = <<>>

\* one access of a metadata property: it lists the bucket unless memoized
Access(op, r) ==
    /\ pc = "episode"
    /\ ep.kind = "s3"
    /\ ep.data.some \/ listed < MaxListings
    /\ res' = Outcome(op, r)
    /\ ep' = [ep EXCEPT !.data = s3_metadata(ep)]
    /\ listed' = IF ep.data.some THEN listed ELSE listed + 1
    /\ UNCHANGED <<channel, source, pc, pos, episodes, order, items>>

GetS3Title == Access("title", title(ep))

GetDescription == Access("description", description(ep))

GetSpeaker == Access("speaker", speaker(ep))

NextS3 == GetS3Title \/ GetDescription \/ GetSpeaker

SpecS3 == InitS3 /\ [][NextS3]_vars

(***************************************************************************)
(* Episode.mimetype, image, as_xml, as_html                                *)
(***************************************************************************)
BOOK_COVER_EXTENSIONS == {<<".", "j", "p", "g">>, <<".", "j", "p", "e", "g">>, <<".", "p", "n", "g">>}

\* os.path.dirname: what precedes the last slash
Dirname(p) == SubSeq(p, 1, LastIndexOf(p, "/") - 1)

mimetype(e) ==
    IF e.kind = "local"
    THEN IF EndsWith(e.filename, <<"m", "4", "b">>) THEN Some(<<"a", "u", "d", "i", "o", "/", "x", "-", "m", "4", "b">>)
         ELSE GuessType(e.filename)
    ELSE IF IsAudioKey(e.filename.key)
         THEN Some(<<"a", "u", "d", "i", "o", "/", "m", "p", "e", "g">>)
         ELSE PyNone

\* the first sibling file with a cover extension, as a URL
image(e) ==
    IF e.kind = "local"
    THEN LET covers == SelectSeq(source, LAMBDA f :
                          /\ Dirname(f.path) = Dirname(e.filename)
                          /\ SplitExt(Basename(f.path))[2] \in BOOK_COVER_EXTENSIONS)
         IN  IF Len(covers) > 0 THEN Some(to_url(e, Basename(covers[1].path))) ELSE PyNone
    ELSE PyNone

\* xml.sax.saxutils.escape: it calls data.replace, so None raises
escape(r) ==
    IF r.status # "ok" THEN r
    ELSE IF ~r.value.some THEN Raise("AttributeError")
    ELSE r

\* the first failure among the template arguments, in evaluation order
RECURSIVE FirstFailure(_)
FirstFailure(args) ==
    IF args = <<>> THEN "ok"
    ELSE IF args[1].status # "ok" THEN args[1].status
    ELSE FirstFailure(Tail(args))

\* Episode.as_xml and Episode.as_html evaluate the same failing arguments in
\* the same order: title, url, date, speaker, description
Render(e) ==
    LET t == escape(title(e))
        u == url(e)
        d == date(e)
        s == escape(speaker(e))
        x == escape(description(e))
        failure == FirstFailure(<<t, u, d, s, x>>)
    IN  IF failure # "ok" THEN Raise(failure)
        ELSE Ok([title |-> t.value.v, url |-> u.value.v, mimetype |-> mimetype(e),
                 length |-> e.length, date |-> d.value, image_url |-> image(e),
                 speaker |-> s.value.v, description |-> x.value.v])

as_xml(e) == Render(e)

as_html(e) == Render(e)

(***************************************************************************)
(* Channel                                                                 *)
(***************************************************************************)
Channel(root_dir, root_url) == [root_dir |-> root_dir, root_url |-> root_url]

is_s3(root_dir) ==
    /\ Contains(root_dir, <<"s", "3">>)
    /\ Contains(root_dir, <<"a", "m", "a", "z", "o", "n", "a", "w", "s", ".", "c", "o", "m">>)

\* a filter that takes every file whose type is known
IsAudioAnyType(filepath) ==
    \/ GuessType(filepath).some
    \/ EndsWith(filepath, <<"m", "4", "b">>)

\* line 315: the file is an episode
IsAudio(filepath) ==
    \/ /\ GuessType(filepath).some
       /\ Contains(GuessType(filepath).v, <<"a", "u", "d", "i", "o">>)
    \/ EndsWith(filepath, <<"m", "4", "b">>)

\* an insertion whose comparison is reversed
RECURSIVE InsertDescending(_, _)
InsertDescending(sorted, e) ==
    IF sorted = <<>> THEN <<e>>
    ELSE IF date(e).value > date(sorted[Len(sorted)]).value
         THEN Append(InsertDescending(SubSeq(sorted, 1, Len(sorted) - 1), e),
                     sorted[Len(sorted)])
         ELSE Append(sorted, e)

\* list.sort with Episode.__lt__: stable, ascending date
RECURSIVE Insert(_, _)
Insert(sorted, e) ==
    IF sorted = <<>> THEN <<e>>
    ELSE IF date(e).value < date(sorted[Len(sorted)]).value
         THEN Append(Insert(SubSeq(sorted, 1, Len(sorted) - 1), e), sorted[Len(sorted)])
         ELSE Append(sorted, e)

RECURSIVE SortedBy(_)
SortedBy(eps) ==
    IF eps = <<>> THEN <<>>
    ELSE Insert(SortedBy(SubSeq(eps, 1, Len(eps) - 1)), eps[Len(eps)])

\* sorted(self): comparing two episodes reads both dates
sorted(eps) ==
    IF Len(eps) >= 2 /\ \E i \in 1..Len(eps) : date(eps[i]).status # "ok"
    THEN Raise((CHOOSE r \in {date(eps[i]) : i \in 1..Len(eps)} : r.status # "ok").status)
    ELSE Ok(SortedBy(eps))

(***************************************************************************)
(* Spec: Channel.as_xml and Channel.as_html over any local directory and   *)
(* any bucket                                                              *)
(***************************************************************************)
\* the variants of one local file: what the tag reader does with it, its
\* date tag and its last-modified time
LocalFiles(path) ==
    {File(path, 1000, "raise", NoTags, PyNone),
     File(path, 1000, "none", NoTags, PyNone),
     File(path, 1000, "tags", [k \in {"date"} |-> << <<1970, 1, 2>> >>], PyNone),
     File(path, 1000, "tags", NoTags, PyNone),
     File(path, 100000, "tags", NoTags, PyNone)}

LocalPaths ==
    {RootDir \o <<"/", "a", ".", "m", "p", "3">>,
     RootDir \o <<"/", "b", ".", "m", "4", "b">>,
     RootDir \o <<"/", "s", "/", "b", ".", "m", "4", "b">>,
     RootDir \o <<"/", "c", ".", "p", "n", "g">>}

\* the directories a walk of at most MaxFiles files can list: no path twice,
\* the files of the root before those of its subdirectories
Directories ==
    {d \in SeqsUpTo(UNION {LocalFiles(p) : p \in LocalPaths}, MaxFiles) :
        /\ \A i, j \in 1..Len(d) : i # j => d[i].path # d[j].path
        /\ \A i, j \in 1..Len(d) :
              Len(Dirname(d[i].path)) < Len(Dirname(d[j].path)) => i < j}

Init ==
    /\ \/ /\ channel = Channel(RootDir, RootUrl)
          /\ source \in Directories
       \/ /\ channel = Channel(S3Root, RootUrl)
          /\ source \in Buckets
    /\ ep = NoEpisode
    /\ res = Idle
    /\ listed = 0
    /\ pc = "idle"
    /\ pos = 1
    /\ episodes = <<>>
    /\ order = <<>>
    /\ items = <<>>

\* a render starts: every render iterates the source from scratch
Begin(op) ==
    /\ pc \in {"idle", "done", "failed"}
    /\ pc' = "iter"
    /\ res' = [op |-> op, status |-> "running", value |-> <<>>]
    /\ pos' = 1
    /\ listed' = 0
    /\ episodes' = <<>>
    /\ order' = <<>>
    /\ items' = <<>>
    /\ UNCHANGED <<channel, source, ep>>

BeginXml == Begin("as_xml")

BeginHtml == Begin("as_html")

Fail(e) ==
    /\ pc' = "failed"
    /\ res' = [res EXCEPT !.status = e]

\* _iter_local: the next file of the walk is an audio file
IterLocalAudio ==
    /\ pc = "iter"
    /\ ~is_s3(channel.root_dir)
    /\ pos <= Len(source)
    /\ LET filepath == source[pos].path
           root == Dirname(filepath)
           relative_dir == SubSeq(root, Len(channel.root_dir) + 1, Len(root))
           new == Episode(filepath, relative_dir, channel.root_url)
       IN  /\ IsAudio(filepath)
           /\ IF new.status = "ok"
              THEN /\ episodes' = Append(episodes, new.value)
                   /\ pos' = pos + 1
                   /\ UNCHANGED <<pc, res>>
              ELSE /\ Fail(new.status)
                   /\ UNCHANGED <<episodes, pos>>
    /\ UNCHANGED <<channel, source, ep, listed, order, items>>

\* _iter_local: the next file of the walk is not an audio file
IterLocalSkip ==
    /\ pc = "iter"
    /\ ~is_s3(channel.root_dir)
    /\ pos <= Len(source)
    /\ ~IsAudio(source[pos].path)
    /\ pos' = pos + 1
    /\ UNCHANGED <<channel, source, ep, res, listed, pc, episodes, order, items>>

\* _iter_s3: the next object of the listing
IterS3 ==
    /\ pc = "iter"
    /\ is_s3(channel.root_dir)
    /\ pos <= Len(source)
    /\ LET obj == source[pos]
           relative_dir == SubSeq(obj.key, 1, Len(obj.key) - 1)
       IN  episodes' = IF IsAudioKey(obj.key)
                       THEN Append(episodes, S3Episode(obj, relative_dir, channel.root_url).value)
                       ELSE episodes
    /\ pos' = pos + 1
    /\ UNCHANGED <<channel, source, ep, res, listed, pc, order, items>>

\* sorted(self), once the iteration is exhausted
Sort ==
    /\ pc = "iter"
    /\ pos > Len(source)
    /\ LET r == sorted(episodes)
       IN  IF r.status = "ok"
           THEN /\ order' = r.value
                /\ pc' = "render"
                /\ UNCHANGED res
           ELSE /\ Fail(r.status)
                /\ UNCHANGED order
    /\ UNCHANGED <<channel, source, ep, listed, pos, episodes, items>>

\* episode.as_xml() / episode.as_html() of the next episode in order
RenderItem ==
    /\ pc = "render"
    /\ Len(items) < Len(order)
    /\ LET e == order[Len(items) + 1]
           r == IF res.op = "as_xml" THEN as_xml(e) ELSE as_html(e)
       IN  /\ IF r.status = "ok"
              THEN /\ items' = Append(items, r.value)
                   /\ UNCHANGED <<pc, res>>
              ELSE /\ Fail(r.status)
                   /\ UNCHANGED items
           /\ listed' = IF e.kind = "s3" THEN listed + 1 ELSE listed
    /\ UNCHANGED <<channel, source, ep, pos, episodes, order>>

\* the channel template is rendered around the joined items
Finish ==
    /\ pc = "render"
    /\ Len(items) = Len(order)
    /\ pc' = "done"
    /\ res' = [res EXCEPT !.status = "ok", !.value = items]
    /\ UNCHANGED <<channel, source, ep, listed, pos, episodes, order, items>>

Next ==
    \/ BeginXml
    \/ BeginHtml
    \/ IterLocalAudio
    \/ IterLocalSkip
    \/ IterS3
    \/ Sort
    \/ RenderItem
    \/ Finish

Spec == Init /\ [][Next]_vars

(***************************************************************************)
(* Properties                                                              *)
(***************************************************************************)
Finished == pc \in {"done", "failed"}

IsLocal == ~is_s3(channel.root_dir)

AudioFiles(n) == {i \in 1..n : IsAudio(source[i].path)}

Bijections(n) == {f \in [1..n -> 1..n] : \A i, j \in 1..n : i # j => f[i] # f[j]}

\* C1: the items Channel.as_xml and Channel.as_html emit are in non-decreasing
\* order of date and are exactly one per yielded episode: sorted(self) is a
\* permutation of the yielded episodes in ascending date, the items are the
\* renderings of its episodes in that order, and a completed render holds one
\* item for each of them.
C1_ItemsSortedByDate ==
    /\ pc \in {"render", "done"} =>
          /\ Len(order) = Len(episodes)
          /\ \E f \in Bijections(Len(order)) :
                \A i \in 1..Len(order) : order[i] = episodes[f[i]]
          /\ \A i, j \in 1..Len(order) :
                i < j => date(order[i]).value <= date(order[j]).value
    /\ Len(items) <= Len(order)
    /\ \A i \in 1..Len(items) : Ok(items[i]) = Render(order[i])
    /\ \A i, j \in 1..Len(items) : i < j => items[i].date <= items[j].date
    /\ pc = "done" => (Len(items) = Len(episodes) /\ res.value = items)

\* a completed render of two episodes that were yielded in descending date
C1_Witness ==
    /\ pc = "done"
    /\ Len(items) = 2
    /\ items[1].date < items[2].date
    /\ Ok(items[1]) = Render(episodes[2])

\* C2: reading Episode.date never fails: for every episode of either variant
\* and every state of its tags it returns a number and raises no error.
C2_DateNeverFails == res.op = "date" => res.status = "ok"

\* C3: a tag reader that fails on, or returns nothing for, one audio file does
\* not stop the iteration: every audio file visited has yielded its episode,
\* with absent tags where the reader gave none, and no render fails before
\* the walk is exhausted.
C3_ReaderFailureSwallowed ==
    (IsLocal /\ pc # "idle") =>
        /\ Len(episodes) = Cardinality(AudioFiles(pos - 1))
        /\ pc = "failed" => pos > Len(source)

\* C4: for a local directory of audio files whose tags can be read, as_xml
\* completes and renders one item per audio file, each titled with the base
\* name of its file and addressed under the root URL and the static prefix.
C4_LocalFeedRenders ==
    (IsLocal /\ Finished /\ res.op = "as_xml"
        /\ \A i \in 1..Len(source) : source[i].reader = "tags") =>
        /\ pc = "done"
        /\ Len(items) = Cardinality(AudioFiles(Len(source)))
        /\ \A i \in 1..Len(items) :
              /\ \E k \in AudioFiles(Len(source)) :
                    items[i].title = SplitExt(Basename(source[k].path))[1]
              /\ StartsWith(items[i].url, channel.root_url \o STATIC_PATH)

\* C5: the path of the URL that Episode._to_url builds never contains "//",
\* whatever the relative_dir and the base name.
C5_NoDoubleSlash ==
    res.op = "url" =>
        ~Contains(SubSeq(res.value.v, Len(ep.root_url) + 1, Len(res.value.v)), <<"/", "/">>)

NoTitleFrame(e) == ~e.id3.some \/ e.id3.v.TIT2 = <<>>

NoCommentFrame(e) == ~e.id3.some \/ e.id3.v.COMM = <<>>

Stem(e) == SplitExt(Basename(e.filename))[1]

\* C6 as stated: a local episode with no TIT2 frame, whatever other frames it
\* has, is titled with the base name of its file without the extension, and
\* no title is empty.
C6_TitleIsStemWithoutTIT2 ==
    res.op = "title" =>
        /\ res.value.v # <<>>
        /\ NoTitleFrame(ep) => res.value.v = Stem(ep)

\* C6 as amended: a local episode with neither a TIT2 nor a COMM frame (or
\* whose ID3 parsing failed) is titled with the base name of its file without
\* the extension; with a COMM frame and no TIT2 frame the title is that stem,
\* a space and the first comment; and no title is empty.
C6_TitleFallback ==
    res.op = "title" =>
        /\ res.status = "ok"
        /\ res.value.v # <<>>
        /\ (NoTitleFrame(ep) /\ NoCommentFrame(ep)) => res.value.v = Stem(ep)
        /\ (NoTitleFrame(ep) /\ ~NoCommentFrame(ep)) =>
              res.value.v = Stem(ep) \o <<" ">> \o ep.id3.v.COMM[1]

C6_Witness ==
    /\ res.op = "title"
    /\ ep.id3.some
    /\ ep.id3.v.TIT2 = <<>>
    /\ ep.id3.v.COMM = <<>>
    /\ SplitExt(Basename(ep.filename))[2] # <<>>

\* the companion JSON objects of the episode: those under the prefix of its
\* key whose values hold its file name, by their place in the listing
Matches ==
    LET key == ep.filename.key
        n == IF Len(key) < 3 THEN Len(key) ELSE 3
    IN  {i \in 1..Len(source) :
            /\ Len(source[i].key) >= n
            /\ \A k \in 1..n : source[i].key[k] = key[k]
            /\ source[i].key[Len(source[i].key)] \in {"m.json", "n.json"}
            /\ \E k \in DOMAIN source[i].body.v : source[i].body.v[k] = key[Len(key)]}

Accessed == res.op \in {"title", "description", "speaker"}

\* C7: with no matching companion JSON object, title, description and speaker
\* raise the distinguished metadata-not-found condition.
C7_MetadataNotFound ==
    (Accessed /\ Matches = {}) => res.status = "MetadataNotFound"

\* C8: the date of a local episode is the timestamp of the first format that
\* parses its date tag, and the last-modified time exactly when the tag is
\* absent or empty or no format parses.
C8_DateFallbackChain ==
    (res.op = "date" /\ ep.kind = "local" /\ ep.tags.t = "map") =>
        LET m == ep.tags.m
            present == "date" \in DOMAIN m /\ m["date"] # <<>> /\ m["date"][1] # <<>>
            parsing == IF present
                       THEN {k \in 1..Len(formats) : strptime(m["date"][1], formats[k]).status = "ok"}
                       ELSE {}
            first == CHOOSE k \in parsing : \A j \in parsing : k <= j
        IN  /\ res.status = "ok"
            /\ res.value = IF parsing # {}
                           THEN mktime(strptime(m["date"][1], formats[first]).value)
                           ELSE source[1].mtime

\* the directory holds no file with an audio extension
NoAudioFile ==
    \A i \in 1..Len(source) :
        SplitExt(source[i].path)[2] \notin {<<".", "m", "p", "3">>, <<".", "m", "4", "b">>}

\* C9: a local root directory without audio files, empty or holding only
\* other files, makes as_xml return the envelope with no item and no error.
C9_EmptySourceRenders ==
    (IsLocal /\ res.op = "as_xml" /\ NoAudioFile) =>
        /\ pc # "failed"
        /\ episodes = <<>>
        /\ items = <<>>
        /\ pc = "done" => (res.status = "ok" /\ res.value = <<>>)

C9_Witness ==
    /\ IsLocal
    /\ res.op = "as_xml"
    /\ source # <<>>
    /\ NoAudioFile
    /\ pc = "done"

FieldOf(op) ==
    CASE op = "title" -> "Recording Title"
      [] op = "description" -> "Description"
      [] OTHER -> "Speaker"

\* C10: s3_metadata keeps the first matching companion JSON object of the
\* listing and memoizes it: every access returns that object's data and the
\* bucket is listed once.
C10_FirstMatchMemoized ==
    (Accessed /\ Matches # {}) =>
        LET first == CHOOSE i \in Matches : \A j \in Matches : i <= j
        IN  /\ ep.data = source[first].body
            /\ res.status = "ok"
            /\ res.value.v = source[first].body.v[FieldOf(res.op)]
            /\ listed = 1

====
